---- MODULE Spec2Model ----
(***************************************************************************)
(* Life Expectancy Prediction API (src/main.py).                           *)
(*                                                                         *)
(* The model covers module start-up (loading the two artifacts), the       *)
(* request-body validation declared by LifeExpectancyInput, the three      *)
(* derived-feature validators, the POST /predict handler and GET /health.  *)
(*                                                                         *)
(* Numbers are exact rationals <<n, d>> with d > 0 in lowest terms; the    *)
(* binary floating point of the program is abstracted to exact arithmetic. *)
(***************************************************************************)
EXTENDS Integers, Sequences, FiniteSets, TLC

\* ------------------------------------------------------------------ bounds
\* At most this many of the 19 raw fields of a request differ from the
\* documented example body.
MaxDeviations == 1

\* Number of requests that may be in flight at once in SpecPair.
NumSlots == 2

\* At most this many of the 19 raw fields of a request of SpecMulti are
\* invalid.
MaxOffending == 2

\* The smoke-test runner is followed until its three counters add up to
\* MaxCalls.
MaxCalls == 3

\* ------------------------------------------------------------- rationals
Abs(x) == IF x < 0 THEN -x ELSE x

RECURSIVE GCD(_, _)
GCD(a, b) == IF b = 0 THEN a ELSE GCD(b, a % b)

\* The rational n/d (d # 0) in lowest terms with a positive denominator.
Rat(n, d) ==
    LET g == GCD(Abs(n), Abs(d))
        s == IF d < 0 THEN -1 ELSE 1
    IN  <<(s * n) \div g, (s * d) \div g>>

RInt(n) == <<n, 1>>
RAdd(a, b) == Rat(a[1] * b[2] + b[1] * a[2], a[2] * b[2])
RSub(a, b) == Rat(a[1] * b[2] - b[1] * a[2], a[2] * b[2])
RDiv(a, b) == Rat(a[1] * b[2], a[2] * b[1])
RLe(a, b) == a[1] * b[2] <= b[1] * a[2]
RLt(a, b) == a[1] * b[2] < b[1] * a[2]

\* ---------------------------------------------------------------- fields
\* The 19 required fields of LifeExpectancyInput in declaration order.
RawFields ==
    << "adult_mortality", "infant_deaths", "alcohol", "percentage_expenditure",
       "hepatitis_b", "measles", "bmi", "under_five_deaths", "polio",
       "total_expenditure", "diphtheria", "hiv_aids", "gdp", "population",
       "thinness_1_19_years", "thinness_5_9_years",
       "income_composition_of_resources", "schooling", "status_numeric" >>

\* The three optional engineered fields in declaration order.
DerivedFields ==
    << "immunization_avg", "child_health_score", "health_spending_ratio" >>

Range(s) == {s[i] : i \in DOMAIN s}
RawSet == Range(RawFields)
DerivedSet == Range(DerivedFields)
AllFields == RawSet \cup DerivedSet

\* ge= of every field that declares one.
FieldGe ==
    [ adult_mortality |-> 1, infant_deaths |-> 0, alcohol |-> 0,
      percentage_expenditure |-> 0, hepatitis_b |-> 0, measles |-> 0,
      bmi |-> 10, under_five_deaths |-> 0, polio |-> 0,
      total_expenditure |-> 0, diphtheria |-> 0, hiv_aids |-> 0, gdp |-> 0,
      population |-> 1000, thinness_1_19_years |-> 0,
      thinness_5_9_years |-> 0, income_composition_of_resources |-> 0,
      schooling |-> 0, status_numeric |-> 0, immunization_avg |-> 0 ]

\* le= of every field that declares one.
FieldLe ==
    [ adult_mortality |-> 1000, infant_deaths |-> 2000, alcohol |-> 20,
      percentage_expenditure |-> 20000, hepatitis_b |-> 100,
      measles |-> 500000, bmi |-> 80, under_five_deaths |-> 3000,
      polio |-> 100, total_expenditure |-> 20, diphtheria |-> 100,
      hiv_aids |-> 50, gdp |-> 150000, population |-> 1500000000,
      thinness_1_19_years |-> 30, thinness_5_9_years |-> 30,
      income_composition_of_resources |-> 1, schooling |-> 25,
      status_numeric |-> 1, immunization_avg |-> 100 ]

\* Fields declared with ge=/le= constraints.
Constrained == DOMAIN FieldGe

\* Config.schema_extra["example"]: the documented valid request body.
Example ==
    [ adult_mortality |-> <<150, 1>>, infant_deaths |-> <<20, 1>>,
      alcohol |-> <<5, 1>>, percentage_expenditure |-> <<500, 1>>,
      hepatitis_b |-> <<85, 1>>, measles |-> <<100, 1>>, bmi |-> <<30, 1>>,
      under_five_deaths |-> <<25, 1>>, polio |-> <<90, 1>>,
      total_expenditure |-> <<13, 2>>, diphtheria |-> <<88, 1>>,
      hiv_aids |-> <<1, 1>>, gdp |-> <<5000, 1>>,
      population |-> <<10000000, 1>>, thinness_1_19_years |-> <<5, 1>>,
      thinness_5_9_years |-> <<5, 1>>,
      income_composition_of_resources |-> <<13, 20>>,
      schooling |-> <<12, 1>>, status_numeric |-> <<0, 1>> ]

\* ---------------------------------------------------------- JSON values
\* A member of a request body: a number, a value that is not a number
\* ("bad"), or no member at all ("missing").
Num(r) == [k |-> "num", v |-> r]
Bad == [k |-> "bad", v |-> <<0, 1>>]
Missing == [k |-> "missing", v |-> <<0, 1>>]


\* Member x of the body as handed to field f: an absent optional field takes
\* its default None.
NoneV == [k |-> "none", v |-> <<0, 1>>]

\* ------------------------------------------------------------ validation
\* Truncation toward zero, as int() does.
Trunc(r) == IF r[1] >= 0 THEN r[1] \div r[2] ELSE -((-r[1]) \div r[2])

\* Coercion of a numeric body member to the declared type of field f
\* (status_numeric: int, every other field: float).
Coerce(f, r) == IF f = "status_numeric" THEN RInt(Trunc(r)) ELSE r

\* The declared type of field f, as /feature-info names types.
FieldType(f) == IF f = "status_numeric" THEN "integer" ELSE "float"

TypeErrorOf(f) ==
    IF f = "status_numeric" THEN "type_error.integer" ELSE "type_error.float"

\* FieldError with exclusive bounds (gt/lt in place of ge/le).
FieldError_exclusiveBounds(f, x) ==
    IF x.k = "missing"
    THEN IF f \in RawSet THEN "value_error.missing" ELSE "ok"
    ELSE IF x.k = "bad" THEN TypeErrorOf(f)
    ELSE IF f \in Constrained /\ RLe(Coerce(f, x.v), RInt(FieldGe[f]))
         THEN "value_error.number.not_gt"
    ELSE IF f \in Constrained /\ RLe(RInt(FieldLe[f]), Coerce(f, x.v))
         THEN "value_error.number.not_lt"
    ELSE "ok"

\* FieldError with every field optional and untyped: an absent member or one
\* that is not a number is taken as 0.
FieldError_untyped(f, x) ==
    IF x.k \in {"missing", "bad"} THEN "ok"
    ELSE IF f \in Constrained /\ RLt(Coerce(f, x.v), RInt(FieldGe[f]))
         THEN "value_error.number.not_ge"
    ELSE IF f \in Constrained /\ RLt(RInt(FieldLe[f]), Coerce(f, x.v))
         THEN "value_error.number.not_le"
    ELSE "ok"

\* FieldError without the le= constraints.
FieldError_noUpperBound(f, x) ==
    IF x.k = "missing"
    THEN IF f \in RawSet THEN "value_error.missing" ELSE "ok"
    ELSE IF x.k = "bad" THEN TypeErrorOf(f)
    ELSE IF f \in Constrained /\ RLt(Coerce(f, x.v), RInt(FieldGe[f]))
         THEN "value_error.number.not_ge"
    ELSE "ok"

\* The error pydantic records for member x of field f, or "ok".
FieldError(f, x) ==
    IF x.k = "missing"
    THEN IF f \in RawSet THEN "value_error.missing" ELSE "ok"
    ELSE IF x.k = "bad" THEN TypeErrorOf(f)
    ELSE IF f \in Constrained /\ RLt(Coerce(f, x.v), RInt(FieldGe[f]))
         THEN "value_error.number.not_ge"
    ELSE IF f \in Constrained /\ RLt(RInt(FieldLe[f]), Coerce(f, x.v))
         THEN "value_error.number.not_le"
    ELSE "ok"

\* values.get(key, default)
Get(values, key, default) ==
    IF key \in DOMAIN values THEN values[key] ELSE default

\* calculate_immunization_avg without the "if v is None" test.
calculate_immunization_avg_recomputes(v, values) ==
    LET hep_b == Get(values, "hepatitis_b", RInt(0))
        polio == Get(values, "polio", RInt(0))
        diphtheria == Get(values, "diphtheria", RInt(0))
    IN  Num(RDiv(RAdd(RAdd(hep_b, polio), diphtheria), RInt(3)))

\* calculate_immunization_avg dividing the sum of the three coverages by 2.
calculate_immunization_avg_halved(v, values) ==
    IF v.k = "none"
    THEN LET hep_b == Get(values, "hepatitis_b", RInt(0))
             polio == Get(values, "polio", RInt(0))
             diphtheria == Get(values, "diphtheria", RInt(0))
         IN  Num(RDiv(RAdd(RAdd(hep_b, polio), diphtheria), RInt(2)))
    ELSE v

calculate_immunization_avg(v, values) ==
    IF v.k = "none"
    THEN LET hep_b == Get(values, "hepatitis_b", RInt(0))
             polio == Get(values, "polio", RInt(0))
             diphtheria == Get(values, "diphtheria", RInt(0))
         IN  Num(RDiv(RAdd(RAdd(hep_b, polio), diphtheria), RInt(3)))
    ELSE v

\* calculate_child_health_score clamped at 0.
calculate_child_health_score_clamped(v, values) ==
    IF v.k = "none"
    THEN LET infant == Get(values, "infant_deaths", RInt(0))
             under_five == Get(values, "under_five_deaths", RInt(0))
             score == RSub(RInt(100), RDiv(RAdd(infant, under_five), RInt(2)))
         IN  Num(IF score[1] < 0 THEN RInt(0) ELSE score)
    ELSE v

calculate_child_health_score(v, values) ==
    IF v.k = "none"
    THEN LET infant == Get(values, "infant_deaths", RInt(0))
             under_five == Get(values, "under_five_deaths", RInt(0))
         IN  Num(RSub(RInt(100), RDiv(RAdd(infant, under_five), RInt(2))))
    ELSE v

calculate_health_spending_ratio(v, values) ==
    IF v.k = "none"
    THEN LET expenditure == Get(values, "percentage_expenditure", RInt(0))
             gdp == Get(values, "gdp", RInt(1))
         IN  Num(RDiv(expenditure, RAdd(gdp, RInt(1))))
    ELSE v

\* The always=True validator of derived field d.
RunValidator(d, v, values) ==
    CASE d = "immunization_avg" -> calculate_immunization_avg(v, values)
      [] d = "child_health_score" -> calculate_child_health_score(v, values)
      [] d = "health_spending_ratio" ->
             calculate_health_spending_ratio(v, values)

\* ValidateBody that stops at the first field that fails and reports only it.
ValidateBody_firstOnly(b) ==
    LET order == RawFields \o DerivedFields
        rawOk == {f \in RawSet : FieldError(f, b[f]) = "ok"}
        rawValues == [f \in rawOk |-> Coerce(f, b[f].v)]
        derOk == {d \in DerivedSet : FieldError(d, b[d]) = "ok"}
        given(d) == IF b[d].k = "missing" THEN NoneV ELSE Num(b[d].v)
        failing == {i \in DOMAIN order : FieldError(order[i], b[order[i]]) # "ok"}
        first == order[CHOOSE i \in failing : \A j \in failing : i <= j]
    IN  [ values |->
            [f \in rawOk \cup derOk |->
                IF f \in rawOk THEN rawValues[f]
                ELSE RunValidator(f, given(f), rawValues).v],
          errors |->
            IF failing = {} THEN {}
            ELSE {[loc |-> first, type |-> FieldError(first, b[first])]},
          computed |-> {d \in derOk : given(d).k = "none"} ]

\* Construction of LifeExpectancyInput from body b.  Fields are validated in
\* declaration order; a field that fails is left out of values and the
\* remaining fields are still validated, so every error is collected.  The
\* validator of a derived field runs when the field itself has no error.
\*   values   : the fields that validated, with their final values
\*   errors   : one entry per failing field
\*   computed : the derived fields whose formula was evaluated
ValidateBody(b) ==
    LET rawOk == {f \in RawSet : FieldError(f, b[f]) = "ok"}
        rawValues == [f \in rawOk |-> Coerce(f, b[f].v)]
        derOk == {d \in DerivedSet : FieldError(d, b[d]) = "ok"}
        given(d) == IF b[d].k = "missing" THEN NoneV ELSE Num(b[d].v)
    IN  [ values |->
            [f \in rawOk \cup derOk |->
                IF f \in rawOk THEN rawValues[f]
                ELSE RunValidator(f, given(f), rawValues).v],
          errors |->
            {[loc |-> f, type |-> FieldError(f, b[f])] :
                f \in AllFields \ (rawOk \cup derOk)},
          computed |-> {d \in derOk : given(d).k = "none"} ]

\* ------------------------------------------------------------ the inputs
DevKinds == {"missing", "bad", "below", "min", "max", "above"}

\* The member of kind kd for raw field f: absent, not a number, one unit
\* below the minimum, the minimum, the maximum, one unit above the maximum.
Dev(f, kd) ==
    CASE kd = "missing" -> Missing
      [] kd = "bad" -> Bad
      [] kd = "below" -> Num(RInt(FieldGe[f] - 1))
      [] kd = "min" -> Num(RInt(FieldGe[f]))
      [] kd = "max" -> Num(RInt(FieldLe[f]))
      [] kd = "above" -> Num(RInt(FieldLe[f] + 1))

RECURSIVE SubsetsUpTo(_)
SubsetsUpTo(k) ==
    IF k = 0 THEN {{}}
    ELSE LET prev == SubsetsUpTo(k - 1)
         IN  prev \cup {s \cup {f} : s \in prev, f \in RawSet}

\* The raw parts of a body: the example with at most MaxDeviations members
\* replaced by a member of one of the kinds of K.
RawParts(K) ==
    UNION { { [f \in RawSet |->
                 IF f \in S THEN Dev(f, ch[f]) ELSE Num(Example[f])] :
              ch \in [S -> K] } : S \in SubsetsUpTo(MaxDeviations) }

\* What a caller may send for each derived field.
DerivedChoices ==
    [ immunization_avg |->
        {Missing, Num(<<-1, 1>>), Num(<<0, 1>>), Num(<<100, 1>>),
         Num(<<101, 1>>)},
      child_health_score |-> {Missing, Bad, Num(<<-950, 1>>)},
      health_spending_ratio |-> {Missing, Num(<<7, 1>>)} ]

DerivedParts ==
    {dp \in [DerivedSet -> UNION {DerivedChoices[d] : d \in DerivedSet}] :
        \A d \in DerivedSet : dp[d] \in DerivedChoices[d]}

MakeBody(rp, dp) == [f \in AllFields |-> IF f \in RawSet THEN rp[f] ELSE dp[f]]

\* Bodies that probe the raw fields: any kind of member, no derived field.
ProbeBodies ==
    {MakeBody(rp, [d \in DerivedSet |-> Missing]) : rp \in RawParts(DevKinds)}

\* Bodies that supply derived fields: raw members on their bounds or as in
\* the example, any choice of the derived members.
OverrideBodies ==
    {MakeBody(rp, dp) : rp \in RawParts({"min", "max"}), dp \in DerivedParts}

\* Bodies on the corners of the declared ranges: every raw member on its
\* minimum, or every raw member on its maximum; no derived field.
BoundaryBodies ==
    {MakeBody([f \in RawSet |-> Dev(f, kd)], [d \in DerivedSet |-> Missing]) :
        kd \in {"min", "max"}}

Bodies == ProbeBodies \cup OverrideBodies \cup BoundaryBodies

\* The bodies of the requests handled concurrently: the example, the example
\* with hepatitis_b = 150 and the example without alcohol.
PairBodies ==
    LET ex == MakeBody([f \in RawSet |-> Num(Example[f])],
                       [d \in DerivedSet |-> Missing])
    IN  {ex, [ex EXCEPT !["hepatitis_b"] = Num(<<150, 1>>)],
         [ex EXCEPT !["alcohol"] = Missing]}


\* Bodies with several invalid raw members: the example with at most
\* MaxOffending members absent, not a number or one unit outside the range.
RECURSIVE WithOffending(_)
WithOffending(k) ==
    IF k = 0
    THEN {MakeBody([f \in RawSet |-> Num(Example[f])],
                   [d \in DerivedSet |-> Missing])}
    ELSE LET prev == WithOffending(k - 1)
         IN  prev \cup {[b EXCEPT ![f] = Dev(f, kd)] :
                           b \in prev, f \in RawSet,
                           kd \in {"missing", "bad", "below", "above"}}

MultiBodies == WithOffending(MaxOffending)

\* The bodies of the requests that are sent more than once: the example, the
\* example with infant_deaths on its maximum and the example with
\* hepatitis_b = 150.
ReplayBodies ==
    LET ex == MakeBody([f \in RawSet |-> Num(Example[f])],
                       [d \in DerivedSet |-> Missing])
    IN  {ex, [ex EXCEPT !["infant_deaths"] = Num(<<2000, 1>>)],
         [ex EXCEPT !["hepatitis_b"] = Num(<<150, 1>>)]}

\* --------------------------------------------------- external artifacts
\* What scaler.transform or model.predict may raise.
Excs == [kind : {"KeyError", "ValueError"}, msg : {"m1", "m2"}]

\* str(e): a KeyError prints the repr of its argument.
StrExc(e) == IF e.kind = "KeyError" THEN "'" \o e.msg \o "'" ELSE e.msg

\* What model.predict may return (years).
Predictions == {<<71234, 1000>>, <<567, 8>>, <<569, 8>>}

\* Round2 with one decimal place: round(float(prediction), 1).
Round2_oneDecimal(p) ==
    LET m == p[1] * 10
        q == m \div p[2]
        r == m % p[2]
        h == IF 2 * r < p[2] THEN q
             ELSE IF 2 * r > p[2] THEN q + 1
             ELSE IF q % 2 = 0 THEN q ELSE q + 1
    IN  Rat(h, 10)

\* round(float(prediction), 2): to the nearest hundredth, an exact tie to the
\* even neighbour.
Round2(p) ==
    LET m == p[1] * 100
        q == m \div p[2]
        r == m % p[2]
        h == IF 2 * r < p[2] THEN q
             ELSE IF 2 * r > p[2] THEN q + 1
             ELSE IF q % 2 = 0 THEN q ELSE q + 1
    IN  Rat(h, 100)

\* ------------------------------------------------------------- the state
Slots == 1..NumSlots

VARIABLES
    artifacts,  \* which of the two .pkl files can be loaded
    started,    \* the module has been imported
    bootLog,    \* the log line written while importing
    model,      \* module global: "unbound", "none" or "loaded"
    scaler,     \* module global: "unbound", "none" or "loaded"
    pc,         \* per request: where its handling stands
    path,       \* per request: the route requested
    body,       \* per request: the JSON body received
    input,      \* per request: input_data, the validated fields
    computed,   \* per request: derived fields whose formula was evaluated
    features,   \* per request: the row handed to scaler.transform
    calls,      \* per request: the external calls made, in order
    predicted,  \* per request: what model.predict returned
    logs,       \* per request: the lines written to the log
    resp,       \* per request: the HTTP response
    results,    \* APITester.results: the counters passed, failed, warnings
    call        \* the last step of the smoke-test runner and what it returned

vars == <<artifacts, started, bootLog, model, scaler, pc, path, body,
          input, computed, features, calls, predicted, logs, resp,
          results, call>>

\* The state of the smoke-test runner.
client == <<results, call>>

global == <<artifacts, started, bootLog, model, scaler>>

NoBody == [f \in AllFields |-> Missing]
NoInput == [f \in {} |-> <<0, 1>>]
\* What a request of the smoke-test runner can come to: a response with a
\* status code and a body that parses as JSON or does not, or one of the
\* exceptions test_endpoint catches.
Outcomes ==
    [kind : {"response"}, status : {200, 422, 503}, json : BOOLEAN]
    \cup [kind : {"ConnectionError", "Timeout", "Exception"},
          status : {0}, json : {FALSE}]

NoCall == [op |-> "", method |-> <<>>, expected_status |-> 0,
           outcome |-> [kind |-> "", status |-> 0, json |-> FALSE],
           returned |-> FALSE]

NoResp == [status |-> 0, detail |-> "", errors |-> {},
           prediction |-> <<0, 1>>, summary |-> <<>>,
           health |-> "", model_loaded |-> FALSE, info |-> <<>>]

Init ==
    /\ artifacts \in [model : BOOLEAN, scaler : BOOLEAN]
    /\ started = FALSE
    /\ bootLog = ""
    /\ model = "unbound"
    /\ scaler = "unbound"
    /\ pc = [r \in Slots |-> "idle"]
    /\ path = [r \in Slots |-> ""]
    /\ body = [r \in Slots |-> NoBody]
    /\ input = [r \in Slots |-> NoInput]
    /\ computed = [r \in Slots |-> {}]
    /\ features = [r \in Slots |-> <<>>]
    /\ calls = [r \in Slots |-> <<>>]
    /\ predicted = [r \in Slots |-> <<0, 1>>]
    /\ logs = [r \in Slots |-> <<>>]
    /\ resp = [r \in Slots |-> NoResp]
    /\ results = [passed |-> 0, failed |-> 0, warnings |-> 0]
    /\ call = NoCall

\* ------------------------------------------------------------- start-up
\* LoadArtifacts with an except clause that resets only what failed to load.
LoadArtifacts_keepsModel(a) ==
    [model |-> IF a.model THEN "loaded" ELSE "none",
     scaler |-> IF a.model /\ a.scaler THEN "loaded" ELSE "none",
     log |-> IF a.model /\ a.scaler
             THEN "Model and scaler loaded successfully"
             ELSE "Error loading model"]

\* The try/except around the two joblib.load calls: a is which files load.
LoadArtifacts(a) ==
    IF a.model /\ a.scaler
    THEN [model |-> "loaded", scaler |-> "loaded",
          log |-> "Model and scaler loaded successfully"]
    ELSE [model |-> "none", scaler |-> "none", log |-> "Error loading model"]

Startup ==
    /\ ~started
    /\ started' = TRUE
    /\ model' = LoadArtifacts(artifacts).model
    /\ scaler' = LoadArtifacts(artifacts).scaler
    /\ bootLog' = LoadArtifacts(artifacts).log
    /\ UNCHANGED <<client, artifacts, pc, path, body, input, computed, features,
                   calls, predicted, logs, resp>>

\* ------------------------------------------------------------ GET /health
\* A GET request for route p arrives on slot r.
ReceiveGet(r, p) ==
    /\ started
    /\ pc[r] = "idle"
    /\ pc' = [pc EXCEPT ![r] = "received"]
    /\ path' = [path EXCEPT ![r] = p]
    /\ UNCHANGED <<client, global, body, input, computed, features, calls,
                   predicted, logs, resp>>

\* The body health_check returns when the global model is m.
HealthBody(m) ==
    [ status |-> IF m # "none" THEN "healthy" ELSE "unhealthy",
      model_loaded |-> m # "none",
      message |-> IF m = "loaded"
                  THEN "API is running. Model loaded successfully."
                  ELSE "Model not loaded" ]

HealthCheck(r) ==
    /\ pc[r] = "received"
    /\ path[r] = "/health"
    /\ resp' = [resp EXCEPT ![r] =
                  [NoResp EXCEPT !.status = 200,
                                 !.health = HealthBody(model).status,
                                 !.model_loaded = HealthBody(model).model_loaded,
                                 !.detail = HealthBody(model).message]]
    /\ pc' = [pc EXCEPT ![r] = "done"]
    /\ UNCHANGED <<client, global, path, body, input, computed, features,
                   calls, predicted, logs>>

\* ------------------------------------------------------------------ GET /
Root(r) ==
    /\ pc[r] = "received"
    /\ path[r] = "/"
    /\ resp' = [resp EXCEPT ![r] =
                  [NoResp EXCEPT !.status = 200,
                                 !.detail = "Life Expectancy Prediction API"]]
    /\ pc' = [pc EXCEPT ![r] = "done"]
    /\ UNCHANGED <<client, global, path, body, input, computed, features,
                   calls, predicted, logs>>

\* ------------------------------------------------------ GET /feature-info
\* The "range" and "type" of every entry of "features" in the body returned
\* by get_feature_info (the descriptions are left out).
\* FeatureInfo with the entry of a percentage field copied to every field.
FeatureInfo_copied ==
    [f \in RawSet |-> [range |-> "0.0 - 100.0", type |-> "float"]]

FeatureInfo ==
    [ adult_mortality |-> [range |-> "1.0 - 1000.0", type |-> "float"],
      infant_deaths |-> [range |-> "0.0 - 2000.0", type |-> "float"],
      alcohol |-> [range |-> "0.0 - 20.0", type |-> "float"],
      percentage_expenditure |-> [range |-> "0.0 - 20000.0", type |-> "float"],
      hepatitis_b |-> [range |-> "0.0 - 100.0", type |-> "float"],
      measles |-> [range |-> "0.0 - 500000.0", type |-> "float"],
      bmi |-> [range |-> "10.0 - 80.0", type |-> "float"],
      under_five_deaths |-> [range |-> "0.0 - 3000.0", type |-> "float"],
      polio |-> [range |-> "0.0 - 100.0", type |-> "float"],
      total_expenditure |-> [range |-> "0.0 - 20.0", type |-> "float"],
      diphtheria |-> [range |-> "0.0 - 100.0", type |-> "float"],
      hiv_aids |-> [range |-> "0.0 - 50.0", type |-> "float"],
      gdp |-> [range |-> "0.0 - 150000.0", type |-> "float"],
      population |-> [range |-> "1000.0 - 1500000000.0", type |-> "float"],
      thinness_1_19_years |-> [range |-> "0.0 - 30.0", type |-> "float"],
      thinness_5_9_years |-> [range |-> "0.0 - 30.0", type |-> "float"],
      income_composition_of_resources |->
          [range |-> "0.0 - 1.0", type |-> "float"],
      schooling |-> [range |-> "0.0 - 25.0", type |-> "float"],
      status_numeric |-> [range |-> "0 - 1", type |-> "integer"] ]

get_feature_info(r) ==
    /\ pc[r] = "received"
    /\ path[r] = "/feature-info"
    /\ resp' = [resp EXCEPT ![r] =
                  [NoResp EXCEPT !.status = 200, !.info = FeatureInfo]]
    /\ pc' = [pc EXCEPT ![r] = "done"]
    /\ UNCHANGED <<client, global, path, body, input, computed, features,
                   calls, predicted, logs>>

\* ----------------------------------------------------------- POST /predict
\* A request with body b arrives on slot r.
Receive(r, b) ==
    /\ started
    /\ pc[r] = "idle"
    /\ pc' = [pc EXCEPT ![r] = "received"]
    /\ path' = [path EXCEPT ![r] = "/predict"]
    /\ body' = [body EXCEPT ![r] = b]
    /\ UNCHANGED <<client, global, input, computed, features, calls,
                   predicted, logs, resp>>

\* Validate with the derived values kept in a buffer shared by the requests:
\* a request reuses the derived values of a request that is validated and
\* still waits for its handler.
Validate_cached(r) ==
    /\ pc[r] = "received"
    /\ path[r] = "/predict"
    /\ LET res == ValidateBody(body[r])
           hits == {q \in Slots : pc[q] = "handler"}
           cache == input[CHOOSE q \in hits : TRUE]
       IN  /\ computed' = [computed EXCEPT ![r] = res.computed]
           /\ IF res.errors # {}
              THEN /\ resp' = [resp EXCEPT ![r] =
                                 [NoResp EXCEPT !.status = 422,
                                                !.errors = res.errors]]
                   /\ pc' = [pc EXCEPT ![r] = "done"]
                   /\ UNCHANGED input
              ELSE /\ input' = [input EXCEPT ![r] =
                          [f \in AllFields |->
                              IF f \in res.computed /\ hits # {}
                              THEN cache[f] ELSE res.values[f]]]
                   /\ pc' = [pc EXCEPT ![r] = "handler"]
                   /\ UNCHANGED resp
    /\ UNCHANGED <<client, global, path, body, features, calls, predicted,
                   logs>>

\* Validate with the availability check made first: a request that arrives
\* while the model or the scaler is missing is answered 503 unvalidated.
Validate_availabilityFirst(r) ==
    /\ pc[r] = "received"
    /\ path[r] = "/predict"
    /\ LET res == ValidateBody(body[r])
       IN  /\ computed' = [computed EXCEPT ![r] = res.computed]
           /\ IF model = "none" \/ scaler = "none"
              THEN /\ resp' = [resp EXCEPT ![r] =
                                 [NoResp EXCEPT !.status = 503,
                                    !.detail =
                                      "Model not loaded. Please contact administrator."]]
                   /\ pc' = [pc EXCEPT ![r] = "done"]
                   /\ UNCHANGED input
              ELSE IF res.errors # {}
              THEN /\ resp' = [resp EXCEPT ![r] =
                                 [NoResp EXCEPT !.status = 422,
                                                !.errors = res.errors]]
                   /\ pc' = [pc EXCEPT ![r] = "done"]
                   /\ UNCHANGED input
              ELSE /\ input' = [input EXCEPT ![r] = res.values]
                   /\ pc' = [pc EXCEPT ![r] = "handler"]
                   /\ UNCHANGED resp
    /\ UNCHANGED <<client, global, path, body, features, calls, predicted,
                   logs>>

\* The framework builds input_data from the body before calling the handler;
\* a body that fails is answered 422 with the collected errors.
Validate(r) ==
    /\ pc[r] = "received"
    /\ path[r] = "/predict"
    /\ LET res == ValidateBody(body[r])
       IN  /\ computed' = [computed EXCEPT ![r] = res.computed]
           /\ IF res.errors # {}
              THEN /\ resp' = [resp EXCEPT ![r] =
                                 [NoResp EXCEPT !.status = 422,
                                                !.errors = res.errors]]
                   /\ pc' = [pc EXCEPT ![r] = "done"]
                   /\ UNCHANGED input
              ELSE /\ input' = [input EXCEPT ![r] = res.values]
                   /\ pc' = [pc EXCEPT ![r] = "handler"]
                   /\ UNCHANGED resp
    /\ UNCHANGED <<client, global, path, body, features, calls, predicted,
                   logs>>

\* NotLoaded with the availability check left out.
NotLoaded_unchecked(m, s) == FALSE

\* model is None or scaler is None
NotLoaded(m, s) == m = "none" \/ s = "none"

\* CheckLoaded with a reload: when the check fails the handler loads the model
\* file again and binds the global to it before answering 503.
CheckLoaded_reloads(r) ==
    /\ pc[r] = "handler"
    /\ IF NotLoaded(model, scaler)
       THEN /\ logs' = [logs EXCEPT ![r] =
                          Append(@, "Model or scaler not loaded")]
            /\ resp' = [resp EXCEPT ![r] =
                          [NoResp EXCEPT !.status = 503,
                             !.detail =
                               "Model not loaded. Please contact administrator."]]
            /\ pc' = [pc EXCEPT ![r] = "done"]
            /\ model' = IF artifacts.model THEN "loaded" ELSE "none"
       ELSE /\ pc' = [pc EXCEPT ![r] = "assemble"]
            /\ UNCHANGED <<logs, resp, model>>
    /\ UNCHANGED <<client, artifacts, started, bootLog, scaler, path, body, input,
                   computed, features, calls, predicted>>

CheckLoaded(r) ==
    /\ pc[r] = "handler"
    /\ IF NotLoaded(model, scaler)
       THEN /\ logs' = [logs EXCEPT ![r] =
                          Append(@, "Model or scaler not loaded")]
            /\ resp' = [resp EXCEPT ![r] =
                          [NoResp EXCEPT !.status = 503,
                             !.detail =
                               "Model not loaded. Please contact administrator."]]
            /\ pc' = [pc EXCEPT ![r] = "done"]
       ELSE /\ pc' = [pc EXCEPT ![r] = "assemble"]
            /\ UNCHANGED <<logs, resp>>
    /\ UNCHANGED <<client, global, path, body, input, computed, features,
                   calls, predicted>>

\* The two except clauses of the handler: the response and the log line for
\* exception e raised inside the try block.
Handle(e) ==
    IF e.kind = "KeyError"
    THEN [status |-> 400,
          detail |-> "Missing required feature: " \o StrExc(e),
          log |-> "Missing feature: " \o StrExc(e)]
    ELSE [status |-> 500,
          detail |-> "Prediction failed: " \o StrExc(e),
          log |-> "Prediction error: " \o StrExc(e)]

\* Slot r leaves the try block with exception e.
Raise(r, e) ==
    /\ logs' = [logs EXCEPT ![r] = Append(@, Handle(e).log)]
    /\ resp' = [resp EXCEPT ![r] =
                  [NoResp EXCEPT !.status = Handle(e).status,
                                 !.detail = Handle(e).detail]]
    /\ pc' = [pc EXCEPT ![r] = "done"]

\* feature_order with measles and bmi exchanged.
feature_order_swapped ==
    << "adult_mortality", "infant_deaths", "alcohol", "percentage_expenditure",
       "hepatitis_b", "bmi", "measles", "under_five_deaths", "polio",
       "total_expenditure", "diphtheria", "hiv_aids", "gdp", "population",
       "thinness_1_19_years", "thinness_5_9_years",
       "income_composition_of_resources", "schooling", "status_numeric",
       "immunization_avg", "child_health_score", "health_spending_ratio" >>

\* feature_order with a name that is not a field of LifeExpectancyInput.
feature_order_misspelled ==
    << "adult_mortality", "infant_deaths", "alcohol", "percentage_expenditure",
       "hepatitis_b", "measles", "bmi", "under_five_deaths", "polio",
       "total_expenditure", "diphtheria", "hiv_aids", "gdp", "population",
       "thinness_10_19_years", "thinness_5_9_years",
       "income_composition_of_resources", "schooling", "status_numeric",
       "immunization_avg", "child_health_score", "health_spending_ratio" >>

feature_order ==
    << "adult_mortality", "infant_deaths", "alcohol", "percentage_expenditure",
       "hepatitis_b", "measles", "bmi", "under_five_deaths", "polio",
       "total_expenditure", "diphtheria", "hiv_aids", "gdp", "population",
       "thinness_1_19_years", "thinness_5_9_years",
       "income_composition_of_resources", "schooling", "status_numeric",
       "immunization_avg", "child_health_score", "health_spending_ratio" >>

\* input_dict = input_data.dict(); features = [input_dict[key] for key in
\* feature_order]; a key that is not in the dictionary raises KeyError.
Assemble(r) ==
    /\ pc[r] = "assemble"
    /\ LET input_dict == input[r]
           absent == {i \in DOMAIN feature_order :
                         feature_order[i] \notin DOMAIN input_dict}
       IN  IF absent = {}
           THEN /\ features' = [features EXCEPT ![r] =
                      [i \in DOMAIN feature_order |->
                          input_dict[feature_order[i]]]]
                /\ pc' = [pc EXCEPT ![r] = "scale"]
                /\ UNCHANGED <<logs, resp>>
           ELSE /\ Raise(r, [kind |-> "KeyError",
                             msg |-> feature_order[
                                 CHOOSE i \in absent :
                                     \A j \in absent : i <= j]])
                /\ UNCHANGED features
    /\ UNCHANGED <<client, global, path, body, input, computed, calls,
                   predicted>>

\* Transform with one retry: a first failure of scaler.transform is swallowed
\* and the call is made again.
Transform_retries(r, ok, e) ==
    /\ pc[r] = "scale"
    /\ calls' = [calls EXCEPT ![r] = Append(@, "transform")]
    /\ IF ok
       THEN /\ pc' = [pc EXCEPT ![r] = "predict"]
            /\ UNCHANGED <<logs, resp>>
       ELSE IF calls[r] = <<>>
            THEN UNCHANGED <<pc, logs, resp>>
            ELSE Raise(r, e)
    /\ UNCHANGED <<client, global, path, body, input, computed, features,
                   predicted>>

\* features_scaled = scaler.transform(features): returns (ok) or raises e.
Transform(r, ok, e) ==
    /\ pc[r] = "scale"
    /\ IF scaler # "loaded"
       THEN /\ Raise(r, [kind |-> "AttributeError",
                         msg |-> "'NoneType' object has no attribute 'transform'"])
            /\ UNCHANGED calls
       ELSE /\ calls' = [calls EXCEPT ![r] = Append(@, "transform")]
            /\ IF ok
               THEN /\ pc' = [pc EXCEPT ![r] = "predict"]
                    /\ UNCHANGED <<logs, resp>>
               ELSE Raise(r, e)
    /\ UNCHANGED <<client, global, path, body, input, computed, features,
                   predicted>>

\* The five members of input_summary.
InputSummary(inp) ==
    [ development_status |->
          IF inp["status_numeric"] = RInt(1) THEN "Developed" ELSE "Developing",
      schooling_years |-> inp["schooling"],
      gdp_per_capita |-> inp["gdp"],
      adult_mortality |-> inp["adult_mortality"],
      income_composition |-> inp["income_composition_of_resources"] ]

\* prediction = model.predict(features_scaled)[0]: returns p (ok) or raises
\* e; then the rounding, the summary, the log line and the 200 response.
Predict(r, ok, p, e) ==
    /\ pc[r] = "predict"
    /\ calls' = [calls EXCEPT ![r] = Append(@, "predict")]
    /\ IF ok
       THEN /\ predicted' = [predicted EXCEPT ![r] = p]
            /\ resp' = [resp EXCEPT ![r] =
                          [NoResp EXCEPT !.status = 200,
                                         !.prediction = Round2(p),
                                         !.detail = "Prediction successful",
                                         !.summary = InputSummary(input[r])]]
            /\ logs' = [logs EXCEPT ![r] = Append(@, "Prediction successful")]
            /\ pc' = [pc EXCEPT ![r] = "done"]
       ELSE Raise(r, e) /\ UNCHANGED predicted
    /\ UNCHANGED <<client, global, path, body, input, computed, features>>

\* The response has been sent; the slot takes the next request.
Close(r) ==
    /\ pc[r] = "done"
    /\ pc' = [pc EXCEPT ![r] = "idle"]
    /\ path' = [path EXCEPT ![r] = ""]
    /\ body' = [body EXCEPT ![r] = NoBody]
    /\ input' = [input EXCEPT ![r] = NoInput]
    /\ computed' = [computed EXCEPT ![r] = {}]
    /\ features' = [features EXCEPT ![r] = <<>>]
    /\ calls' = [calls EXCEPT ![r] = <<>>]
    /\ predicted' = [predicted EXCEPT ![r] = <<0, 1>>]
    /\ logs' = [logs EXCEPT ![r] = <<>>]
    /\ resp' = [resp EXCEPT ![r] = NoResp]
    /\ UNCHANGED <<client, global>>

\* The steps of the requests on the slots of S, bodies drawn from B.
Serve(S, B) ==
    \E r \in S :
        \/ \E p \in {"/", "/health", "/feature-info"} : ReceiveGet(r, p)
        \/ Root(r)
        \/ HealthCheck(r)
        \/ get_feature_info(r)
        \/ (pc[r] = "idle" /\ \E b \in B : Receive(r, b))
        \/ Validate(r)
        \/ CheckLoaded(r)
        \/ Assemble(r)
        \/ \E ok \in BOOLEAN, e \in Excs : Transform(r, ok, e)
        \/ \E ok \in BOOLEAN, p \in Predictions, e \in Excs :
               Predict(r, ok, p, e)
        \/ Close(r)

\* One request at a time, every body of Bodies.
Next ==
    \/ Startup
    \/ Serve({1}, Bodies)

Spec == Init /\ [][Next]_vars

\* NumSlots requests in flight, bodies of PairBodies.
NextPair ==
    \/ Startup
    \/ Serve(Slots, PairBodies)

SpecPair == Init /\ [][NextPair]_vars


\* NumSlots requests in flight, bodies of ReplayBodies.
NextReplay ==
    \/ Startup
    \/ Serve(Slots, ReplayBodies)

SpecReplay == Init /\ [][NextReplay]_vars

\* One request at a time, every body of MultiBodies.
NextMulti ==
    \/ Startup
    \/ Serve({1}, MultiBodies)

SpecMulti == Init /\ [][NextMulti]_vars

\* ------------------------------------------------- the smoke-test runner
\* A method name is the sequence of its characters.
GET == <<"G", "E", "T">>
POST == <<"P", "O", "S", "T">>

\* The method arguments test_endpoint is called with.
Methods ==
    {GET, <<"g", "e", "t">>, POST, <<"P", "o", "s", "t">>, <<"P", "U", "T">>,
     <<"d", "e", "l", "e", "t", "e">>}

\* str.upper() on the letters that occur in Methods.
UpperChar(c) ==
    CASE c = "d" -> "D" [] c = "e" -> "E" [] c = "g" -> "G"
      [] c = "l" -> "L" [] c = "o" -> "O" [] c = "s" -> "S"
      [] c = "t" -> "T" [] OTHER -> c

Upper(m) == [i \in DOMAIN m |-> UpperChar(m[i])]

\* The counters of the runner leave room for one more increment.
Room == results.passed + results.failed + results.warnings < MaxCalls

\* test_endpoint that does not try to parse the body of the response.
test_endpoint_skipsJson(method, expected_status, out) ==
    LET supported == Upper(method) \in {GET, POST}
        ok == /\ supported
              /\ out.kind = "response"
              /\ out.status = expected_status
    IN  /\ supported => Room
        /\ results' =
              IF ~supported THEN results
              ELSE IF ok THEN [results EXCEPT !.passed = @ + 1]
              ELSE [results EXCEPT !.failed = @ + 1]
        /\ call' = [op |-> "test_endpoint", method |-> method,
                    expected_status |-> expected_status, outcome |-> out,
                    returned |-> ok]
        /\ UNCHANGED <<global, pc, path, body, input, computed, features,
                       calls, predicted, logs, resp>>

\* APITester.test_endpoint(method, endpoint, data, expected_status): the
\* request comes to outcome out.  An unsupported method returns False before
\* any counter is touched; a caught exception, a status other than the
\* expected one and a body that is not JSON each count one failure; anything
\* else counts one pass.
test_endpoint(method, expected_status, out) ==
    LET supported == Upper(method) \in {GET, POST}
        ok == /\ supported
              /\ out.kind = "response"
              /\ out.status = expected_status
              /\ out.json
    IN  /\ supported => Room
        /\ results' =
              IF ~supported THEN results
              ELSE IF ok THEN [results EXCEPT !.passed = @ + 1]
              ELSE [results EXCEPT !.failed = @ + 1]
        /\ call' = [op |-> "test_endpoint", method |-> method,
                    expected_status |-> expected_status, outcome |-> out,
                    returned |-> ok]
        /\ UNCHANGED <<global, pc, path, body, input, computed, features,
                       calls, predicted, logs, resp>>

\* A test function counts a warning: tester.results['warnings'] += 1.
RecordWarning ==
    /\ Room
    /\ results' = [results EXCEPT !.warnings = @ + 1]
    /\ call' = [NoCall EXCEPT !.op = "warning"]
    /\ UNCHANGED <<global, pc, path, body, input, computed, features,
                   calls, predicted, logs, resp>>

\* main: a test function raised, and the loop counts one failure.
TestCrashed ==
    /\ Room
    /\ results' = [results EXCEPT !.failed = @ + 1]
    /\ call' = [NoCall EXCEPT !.op = "crashed"]
    /\ UNCHANGED <<global, pc, path, body, input, computed, features,
                   calls, predicted, logs, resp>>

\* APITester.print_summary()
print_summary ==
    /\ call' = [NoCall EXCEPT !.op = "print_summary",
                              !.returned = (results.failed = 0)]
    /\ UNCHANGED <<global, pc, path, body, input, computed, features,
                   calls, predicted, logs, resp, results>>

\* The runner alone: any sequence of its steps, every outcome of a request.
NextTester ==
    \/ \E method \in Methods, expected_status \in {200, 422},
          out \in Outcomes : test_endpoint(method, expected_status, out)
    \/ RecordWarning
    \/ TestCrashed
    \/ print_summary

SpecTester == Init /\ [][NextTester]_vars

\* ================================================================ claims
\* Helpers used to state the claims.

\* Slot r holds a POST /predict request whose validation has run.
Validated(r) == path[r] = "/predict" /\ pc[r] \notin {"idle", "received"}

\* Slot r holds a POST /predict request that passed validation.
Passed(r) == Validated(r) /\ DOMAIN input[r] = AllFields

\* Member x is a number within the declared range of raw field f.
WithinDeclared(f, x) ==
    /\ x.k = "num"
    /\ RLe(RInt(FieldGe[f]), x.v)
    /\ RLe(x.v, RInt(FieldLe[f]))

\* Member x is acceptable for derived field d: absent, or a number that for
\* immunization_avg lies in [0, 100].
DerivedAcceptable(d, x) ==
    \/ x.k = "missing"
    \/ /\ x.k = "num"
       /\ d = "immunization_avg" => (RLe(<<0, 1>>, x.v) /\ RLe(x.v, <<100, 1>>))

\* Every member of body b other than f is acceptable.
OthersValid(b, f) ==
    /\ \A g \in RawSet \ {f} : WithinDeclared(g, b[g])
    /\ \A d \in DerivedSet \ {f} : DerivedAcceptable(d, b[d])

\* The fields named by the errors of the response of slot r.
ErrorLocs(r) == {e.loc : e \in resp[r].errors}

\* The vector of slot r has been handed to the scaler.
Handed(r) == Len(calls[r]) >= 1

\* The position of derived field d in the vector.
PosOf(d) ==
    CASE d = "immunization_avg" -> 20
      [] d = "child_health_score" -> 21
      [] d = "health_spending_ratio" -> 22

\* C1: the vector handed to the scaler has exactly 22 elements; elements
\* 1..19 are the raw fields of the request in the canonical order and
\* elements 20..22 are immunization_avg, child_health_score and
\* health_spending_ratio as produced by the derivation step.
C1_VectorOrder ==
    \A r \in Slots :
        Handed(r) =>
            /\ Len(features[r]) = 22
            /\ \A i \in 1..19 : features[r][i] = body[r][RawFields[i]].v
            /\ \A j \in 1..3 : features[r][19 + j] = input[r][DerivedFields[j]]
            /\ \A d \in DerivedSet :
                   body[r][d].k = "num" => input[r][d] = body[r][d].v

\* A vector was handed to the scaler for a request that supplied one derived
\* field and left another to be computed.
C1_Witness ==
    \E r \in Slots :
        /\ Handed(r)
        /\ body[r]["child_health_score"].k = "num"
        /\ body[r]["immunization_avg"].k = "missing"
        /\ body[r]["bmi"].v # body[r]["measles"].v

\* C2: with all other fields valid, a raw field exactly on its declared
\* minimum or maximum is accepted, and one unit below the minimum or above
\* the maximum is rejected with 422 and an error naming that field.
C2_Boundaries ==
    \A r \in Slots : \A f \in RawSet :
        (Validated(r) /\ OthersValid(body[r], f)) =>
            /\ body[r][f] \in {Num(RInt(FieldGe[f])), Num(RInt(FieldLe[f]))}
                   => (Passed(r) /\ resp[r].status # 422)
            /\ body[r][f] \in {Num(RInt(FieldGe[f] - 1)),
                               Num(RInt(FieldLe[f] + 1))}
                   => (pc[r] = "done" /\ resp[r].status = 422
                       /\ ErrorLocs(r) = {f})

\* A request with population one above its maximum was rejected.
C2_Witness ==
    \E r \in Slots :
        /\ Validated(r)
        /\ OthersValid(body[r], "population")
        /\ body[r]["population"] = Num(RInt(FieldLe["population"] + 1))
        /\ resp[r].status = 422

\* C3: a request in which a required raw field is absent or is not a number
\* is answered 422 with an error for that field; no vector is assembled and
\* neither the scaler nor the model is called for it.
C3_MissingOrUncoercible ==
    \A r \in Slots :
        LET offending == {f \in RawSet : body[r][f].k \in {"missing", "bad"}}
        IN  (path[r] = "/predict" /\ pc[r] # "idle" /\ offending # {}) =>
                /\ features[r] = <<>>
                /\ calls[r] = <<>>
                /\ pc[r] \in {"received", "done"}
                /\ pc[r] = "done" =>
                       (resp[r].status = 422 /\ offending \subseteq ErrorLocs(r))

\* A request with a raw field that is not a number was answered.
C3_Witness ==
    \E r \in Slots : \E f \in RawSet :
        /\ Validated(r)
        /\ body[r][f].k = "bad"
        /\ resp[r].status = 422

\* Some raw member of the body of slot r is a number outside its range.
OutOfRange(r) ==
    \E f \in RawSet :
        body[r][f].k = "num" /\ ~WithinDeclared(f, body[r][f])

\* C4 as stated: for a request with a raw field outside its range no
\* derived-feature computation runs and no scaler or model call is made.
C4_Original ==
    \A r \in Slots :
        (path[r] = "/predict" /\ OutOfRange(r)) =>
            (computed[r] = {} /\ calls[r] = <<>>)

\* C4 amended: a request with a raw field outside its range is rejected by
\* validation with 422: the handler never runs for it, so no validated input
\* is kept, no vector is assembled and no scaler or model call is made.
C4_RejectedBeforeHandler ==
    \A r \in Slots :
        (path[r] = "/predict" /\ pc[r] # "idle" /\ OutOfRange(r)) =>
            /\ calls[r] = <<>>
            /\ features[r] = <<>>
            /\ DOMAIN input[r] = {}
            /\ pc[r] \in {"received", "done"}
            /\ pc[r] = "done" => resp[r].status = 422

\* The request with hepatitis_b above 100 was rejected after its derived
\* validators had been evaluated.
C4_Witness ==
    \E r \in Slots :
        /\ Validated(r)
        /\ RLt(<<100, 1>>, body[r]["hepatitis_b"].v)
        /\ resp[r].status = 422
        /\ computed[r] # {}

\* C5: for a valid raw input, each derived field the caller did not supply
\* equals its formula over the raw fields, whichever other derived fields
\* were supplied; child_health_score is not clamped.
C5_Formulas ==
    \A r \in Slots :
        Passed(r) =>
            LET b == body[r]
                raw(f) == b[f].v
            IN  /\ b["immunization_avg"].k = "missing" =>
                    input[r]["immunization_avg"] =
                        RDiv(RAdd(RAdd(raw("hepatitis_b"), raw("polio")),
                                  raw("diphtheria")), <<3, 1>>)
                /\ b["child_health_score"].k = "missing" =>
                    input[r]["child_health_score"] =
                        RSub(<<100, 1>>,
                             RDiv(RAdd(raw("infant_deaths"),
                                       raw("under_five_deaths")), <<2, 1>>))
                /\ b["health_spending_ratio"].k = "missing" =>
                    input[r]["health_spending_ratio"] =
                        RDiv(raw("percentage_expenditure"),
                             RAdd(raw("gdp"), <<1, 1>>))

\* A computed child_health_score is negative while another derived field was
\* supplied.
C5_Witness ==
    \E r \in Slots :
        /\ Passed(r)
        /\ body[r]["child_health_score"].k = "missing"
        /\ body[r]["health_spending_ratio"].k = "num"
        /\ input[r]["child_health_score"][1] < 0

\* C6 as stated: any numeric immunization_avg supplied by the caller is
\* accepted.
C6_Original ==
    \A r \in Slots :
        ( /\ Validated(r)
          /\ body[r]["immunization_avg"].k = "num"
          /\ OthersValid(body[r], "immunization_avg") )
            => (Passed(r) /\ resp[r].status # 422)

\* C6 amended: a supplied child_health_score or health_spending_ratio, and a
\* supplied immunization_avg within [0, 100], is used verbatim at its
\* position of the vector; a supplied immunization_avg below 0 or above 100
\* is rejected with 422 and an error naming immunization_avg.
C6_SuppliedDerived ==
    \A r \in Slots :
        Validated(r) =>
            /\ \A d \in DerivedSet :
                   ( /\ body[r][d].k = "num"
                     /\ DerivedAcceptable(d, body[r][d])
                     /\ OthersValid(body[r], d) ) =>
                       /\ Passed(r)
                       /\ input[r][d] = body[r][d].v
                       /\ Handed(r) => features[r][PosOf(d)] = body[r][d].v
            /\ ( /\ body[r]["immunization_avg"].k = "num"
                 /\ ~DerivedAcceptable("immunization_avg",
                                       body[r]["immunization_avg"]) ) =>
                   /\ pc[r] = "done"
                   /\ resp[r].status = 422
                   /\ "immunization_avg" \in ErrorLocs(r)

\* A supplied immunization_avg of 100 reached the scaler unchanged.
C6_Witness ==
    \E r \in Slots :
        /\ Handed(r)
        /\ body[r]["immunization_avg"] = Num(<<100, 1>>)
        /\ features[r][20] = <<100, 1>>

\* C7: when the model or the scaler is not loaded, a request that passes
\* validation is answered 503; no vector is assembled and no scale or
\* predict call is made.
C7_Unavailable ==
    \A r \in Slots :
        (started /\ (model = "none" \/ scaler = "none") /\ Passed(r)) =>
            /\ features[r] = <<>>
            /\ calls[r] = <<>>
            /\ pc[r] \in {"handler", "done"}
            /\ pc[r] = "done" => resp[r].status = 503

\* A valid request was answered 503.
C7_Witness ==
    \E r \in Slots :
        Passed(r) /\ pc[r] = "done" /\ resp[r].status = 503

\* C8: a request whose scaler.transform or model.predict call failed is
\* answered 500, whatever the exception.
C8_ExternalFailureIs500 ==
    \A r \in Slots :
        (pc[r] = "done" /\ Handed(r) /\ resp[r].status # 200) =>
            resp[r].status = 500

\* C9: two requests whose prediction failed (500) receive the same response
\* detail, whatever the text of the exceptions.
C9_SafeSummary ==
    \A r1, r2 \in Slots :
        (resp[r1].status = 500 /\ resp[r2].status = 500) =>
            resp[r1].detail = resp[r2].detail

\* C10: GET /health answers unhealthy with model_loaded false exactly when
\* loading the model or the scaler failed at start-up, and healthy with
\* model_loaded true otherwise; it answers unhealthy exactly when a valid
\* POST /predict is answered 503.
C10_Health ==
    LET failed == ~artifacts.model \/ ~artifacts.scaler
    IN  \A r \in Slots :
            /\ (pc[r] = "done" /\ path[r] = "/health") =>
                   /\ failed =>
                        (resp[r].health = "unhealthy" /\ ~resp[r].model_loaded)
                   /\ ~failed =>
                        (resp[r].health = "healthy" /\ resp[r].model_loaded)
                   /\ resp[r].health = "unhealthy"
                        <=> (model = "none" \/ scaler = "none")
            /\ (pc[r] = "done" /\ Passed(r)) =>
                   (resp[r].status = 503 <=> failed)

\* /health answered unhealthy after the scaler alone failed to load.
C10_Witness ==
    \E r \in Slots :
        /\ pc[r] = "done"
        /\ path[r] = "/health"
        /\ artifacts.model
        /\ ~artifacts.scaler
        /\ resp[r].health = "unhealthy"

\* C11: two requests with the same body have the same outcome of validation,
\* derivation and assembly, the same validation errors or the same vector,
\* whatever other requests were handled before or between them.
C11_SameBodySameOutcome ==
    \A r1, r2 \in Slots :
        (Validated(r1) /\ Validated(r2) /\ body[r1] = body[r2]) =>
            /\ Passed(r1) <=> Passed(r2)
            /\ ~Passed(r1) =>
                   (resp[r1].status = 422 /\ resp[r2].status = 422
                    /\ resp[r1].errors = resp[r2].errors)
            /\ Passed(r1) => (\A f \in AllFields : input[r1][f] = input[r2][f])
            /\ (features[r1] # <<>> /\ features[r2] # <<>>) =>
                   features[r1] = features[r2]

\* Two requests with the same body both had their vector assembled.
C11_Witness ==
    \E r1, r2 \in Slots :
        /\ r1 # r2
        /\ body[r1] = body[r2]
        /\ Len(features[r1]) = 22
        /\ Len(features[r2]) = 22

\* Everything the handling of the request on slot q keeps.
SlotState(q) ==
    <<pc[q], path[q], body[q], calls[q], logs[q], computed[q], features[q],
      predicted[q], DOMAIN input[q], resp[q].status, resp[q].detail,
      resp[q].errors>>

\* The fields of the body of slot r that validation must report.
Offending(r) ==
    {f \in RawSet : ~WithinDeclared(f, body[r][f])}
        \cup {d \in DerivedSet : ~DerivedAcceptable(d, body[r][d])}

\* The response of slot r is the one its request gets when it is the only
\* request: fixed for / and /feature-info, decided by the outcome of start-up
\* for /health, and for /predict decided by the body, the outcome of
\* start-up and the outcome of the request's own external calls.
SoloResponse(r) ==
    LET failed == ~artifacts.model \/ ~artifacts.scaler
    IN  pc[r] = "done" =>
            CASE path[r] = "/" ->
                     /\ resp[r].status = 200
                     /\ resp[r].detail = "Life Expectancy Prediction API"
              [] path[r] = "/health" ->
                     /\ resp[r].status = 200
                     /\ resp[r].health =
                            IF failed THEN "unhealthy" ELSE "healthy"
                     /\ resp[r].model_loaded = ~failed
              [] path[r] = "/feature-info" ->
                     /\ resp[r].status = 200
                     /\ DOMAIN resp[r].info = RawSet
              [] path[r] = "/predict" ->
                     /\ Offending(r) # {} =>
                            /\ resp[r].status = 422
                            /\ ErrorLocs(r) = Offending(r)
                            /\ calls[r] = <<>>
                     /\ (Offending(r) = {} /\ failed) =>
                            (resp[r].status = 503 /\ calls[r] = <<>>)
                     /\ (Offending(r) = {} /\ ~failed) =>
                            /\ resp[r].status \in {200, 400, 500}
                            /\ resp[r].status = 200 =>
                                   calls[r] = <<"transform", "predict">>
                            /\ resp[r].status # 200 =>
                                   calls[r] \in {<<"transform">>,
                                                 <<"transform", "predict">>}

\* C12: under every interleaving of the requests in flight, a step after
\* start-up leaves the model, the scaler and every other shared variable as
\* they are, changes the state of at most one request, and every response is
\* the one its request gets when handled alone.
C12_NoSharedWrites ==
    [][ started =>
          /\ UNCHANGED <<artifacts, started, bootLog, model, scaler>>
          /\ \E r \in Slots :
                 \A q \in Slots \ {r} : SlotState(q)' = SlotState(q)
          /\ \A r \in Slots : SoloResponse(r)' ]_vars

\* A /predict request is between its two external calls while a /health
\* request on another slot has been answered.
C12_Witness ==
    \E r1, r2 \in Slots :
        /\ r1 # r2
        /\ pc[r1] = "predict"
        /\ pc[r2] = "done"
        /\ path[r2] = "/health"

\* C13: the predicted_life_expectancy of a 200 response is the output of the
\* model rounded to 2 decimal places: a multiple of 0.01 within 0.005 of the
\* output; the vector handed to the scaler is not rounded.
C13_RoundedToHundredths ==
    \A r \in Slots :
        (pc[r] = "done" /\ path[r] = "/predict" /\ resp[r].status = 200) =>
            LET y == resp[r].prediction
                diff == RSub(y, predicted[r])
            IN  /\ 100 % y[2] = 0
                /\ RLe(<<-1, 200>>, diff)
                /\ RLe(diff, <<1, 200>>)
                /\ \A i \in 1..19 : features[r][i] = body[r][RawFields[i]].v
                /\ \A j \in 1..3 :
                       features[r][19 + j] = input[r][DerivedFields[j]]

\* A prediction of 70.875 was returned as 70.88 for a vector that holds the
\* unrounded immunization_avg 263/3.
C13_Witness ==
    \E r \in Slots :
        /\ pc[r] = "done"
        /\ resp[r].status = 200
        /\ predicted[r] = <<567, 8>>
        /\ resp[r].prediction = <<1772, 25>>
        /\ features[r][20] = <<263, 3>>

\* str() of the bound n of field f: a float bound prints with ".0".
BoundText(f, n) ==
    IF FieldType(f) = "float" THEN ToString(n) \o ".0" ELSE ToString(n)

\* C14: /feature-info documents exactly the 19 raw fields, and for each of
\* them the documented range is "<minimum> - <maximum>" of the bounds the
\* validator enforces and the documented type is the declared type.
C14_FeatureInfoMatchesValidator ==
    \A r \in Slots :
        (pc[r] = "done" /\ path[r] = "/feature-info") =>
            /\ DOMAIN resp[r].info = RawSet
            /\ \A f \in RawSet :
                   /\ resp[r].info[f].type = FieldType(f)
                   /\ resp[r].info[f].range =
                          BoundText(f, FieldGe[f]) \o " - "
                              \o BoundText(f, FieldLe[f])

\* /feature-info was answered with status_numeric documented as an integer.
C14_Witness ==
    \E r \in Slots :
        /\ pc[r] = "done"
        /\ path[r] = "/feature-info"
        /\ resp[r].info["status_numeric"].type = "integer"
        /\ resp[r].info["population"].range = "1000.0 - 1500000000.0"

\* C15: when several fields of a request are absent, not numbers or out of
\* range, the 422 response carries an error for every one of them, the first
\* in declaration order included.
C15_AllViolationsReported ==
    \A r \in Slots :
        (Validated(r) /\ Offending(r) # {}) =>
            /\ pc[r] = "done"
            /\ resp[r].status = 422
            /\ ErrorLocs(r) = Offending(r)
            /\ Cardinality(resp[r].errors) = Cardinality(Offending(r))

\* A request with an absent member and a member out of range was answered
\* with two errors.
C15_Witness ==
    \E r \in Slots : \E f, g \in RawSet :
        /\ Validated(r)
        /\ body[r][f].k = "missing"
        /\ body[r][g].k = "num"
        /\ ~WithinDeclared(g, body[r][g])
        /\ {f, g} \subseteq ErrorLocs(r)

\* C16: for a request that passed validation every one of the 22 names of
\* the feature order is a key of the input dictionary, so assembly never
\* takes the missing-feature branch: once the handler is past the
\* availability check the vector has its 22 elements, and a 400 response
\* only follows an external call.
C16_AssemblyNeverMisses ==
    \A r \in Slots :
        Passed(r) =>
            /\ Range(feature_order) \subseteq DOMAIN input[r]
            /\ pc[r] \in {"scale", "predict"} => Len(features[r]) = 22
            /\ (pc[r] = "done" /\ resp[r].status # 503) =>
                   (Len(features[r]) = 22 /\ Handed(r))
            /\ resp[r].status = 400 => Handed(r)

\* The vector of a request was assembled and waits for the scaler.
C16_Witness ==
    \E r \in Slots :
        /\ Passed(r)
        /\ pc[r] = "scale"
        /\ Len(features[r]) = 22

\* C17: within one request scaler.transform is called at most once and
\* model.predict at most once, predict only after transform has returned,
\* and a failure of either ends the request at once: the calls of a request
\* that is still being handled are none, or the one successful transform.
C17_NoRetries ==
    \A r \in Slots :
        /\ calls[r] \in {<<>>, <<"transform">>, <<"transform", "predict">>}
        /\ pc[r] = "predict" <=> (calls[r] = <<"transform">> /\ pc[r] # "done")
        /\ calls[r] = <<"transform", "predict">> => pc[r] = "done"
        /\ (pc[r] = "done" /\ calls[r] = <<"transform">>) =>
               resp[r].status \in {400, 500}
        /\ (pc[r] = "done" /\ path[r] = "/predict" /\ resp[r].status = 200) =>
               calls[r] = <<"transform", "predict">>

\* A failure of scaler.transform was reported without a call of predict.
C17_Witness ==
    \E r \in Slots :
        /\ pc[r] = "done"
        /\ calls[r] = <<"transform">>
        /\ resp[r].status = 500

\* C18: a request that fails validation is answered 422 whether or not the
\* model and the scaler are loaded, 503 is only given to a request that
\* passed validation, and every answered request has one of the statuses
\* 200, 422, 503, 400, 500.
C18_ValidationFirst ==
    \A r \in Slots :
        (pc[r] = "done" /\ path[r] = "/predict") =>
            /\ resp[r].status \in {200, 422, 503, 400, 500}
            /\ Offending(r) # {} => resp[r].status = 422
            /\ resp[r].status = 422 => (Offending(r) # {} /\ ~Passed(r))
            /\ resp[r].status = 503 => (Offending(r) = {} /\ Passed(r))

\* An invalid request was answered 422 while the model was not loaded.
C18_Witness ==
    \E r \in Slots :
        /\ pc[r] = "done"
        /\ path[r] = "/predict"
        /\ model = "none"
        /\ Offending(r) # {}
        /\ resp[r].status = 422

\* The raw members of the body of request r are all valid.
RawValid(r) == \A f \in RawSet : FieldError(f, body[r][f]) = "ok"

\* C19: for every request that passed validation, a computed
\* immunization_avg lies in [0, 100], a computed child_health_score lies in
\* [-2400, 100], gdp + 1 is at least 1 and a computed health_spending_ratio
\* is a well-defined number; a request whose raw members are valid and that
\* leaves the derived fields out always passes, with all three computed.
C19_DerivedBounded ==
    \A r \in Slots :
        /\ Passed(r) =>
              /\ "immunization_avg" \in computed[r] =>
                    /\ RLe(RInt(0), input[r]["immunization_avg"])
                    /\ RLe(input[r]["immunization_avg"], RInt(100))
              /\ "child_health_score" \in computed[r] =>
                    /\ RLe(RInt(-2400), input[r]["child_health_score"])
                    /\ RLe(input[r]["child_health_score"], RInt(100))
              /\ RLe(RInt(1), RAdd(input[r]["gdp"], RInt(1)))
              /\ "health_spending_ratio" \in computed[r] =>
                    /\ input[r]["health_spending_ratio"][2] > 0
                    /\ RLe(RInt(0), input[r]["health_spending_ratio"])
              /\ \A d \in DerivedSet : input[r][d][2] > 0
        /\ ( /\ Validated(r)
             /\ RawValid(r)
             /\ \A d \in DerivedSet : body[r][d].k = "missing" ) =>
              (Passed(r) /\ computed[r] = DerivedSet)

\* A request with every raw member on its maximum passed validation: the
\* computed immunization_avg is 100 and the computed child_health_score is
\* -2400.
C19_Witness ==
    \E r \in Slots :
        /\ Passed(r)
        /\ computed[r] = DerivedSet
        /\ input[r]["immunization_avg"] = RInt(100)
        /\ input[r]["child_health_score"] = RInt(-2400)

\* What a step of the smoke-test runner must do, Supported(m) telling the
\* methods that send a request.
RunnerStep(Supported(_)) ==
    LET c == call'
        ok == /\ c.outcome.kind = "response"
              /\ c.outcome.status = c.expected_status
              /\ c.outcome.json
        passedOne == /\ results'.passed = results.passed + 1
                     /\ results'.failed = results.failed
        failedOne == /\ results'.passed = results.passed
                     /\ results'.failed = results.failed + 1
    IN  /\ c.op = "test_endpoint" =>
              /\ results'.warnings = results.warnings
              /\ Supported(c.method) =>
                    /\ passedOne \/ failedOne
                    /\ c.returned <=> passedOne
                    /\ c.returned <=> ok
              /\ ~Supported(c.method) =>
                    /\ c.returned = FALSE
                    /\ results' = results
        /\ c.op = "print_summary" =>
              /\ c.returned <=> (results.failed = 0)
              /\ results' = results

IsGetOrPost(m) == m \in {GET, POST}
IsGetOrPostAnyCase(m) == Upper(m) \in {GET, POST}

\* C20 as stated: a test_endpoint call with method GET or POST adds one to
\* exactly one of passed and failed and returns True iff it added to passed;
\* a call with any other method returns False and changes neither counter;
\* no call changes warnings; print_summary returns True iff failed = 0.
C20_Original == [][client' # client => RunnerStep(IsGetOrPost)]_vars

\* C20, amended: a test_endpoint call whose method is GET or POST in any
\* letter case adds one to exactly one of passed and failed and returns True
\* iff it added to passed (the status is the expected one and the body is
\* JSON); a call with any other method returns False and changes neither
\* counter; no call changes warnings; print_summary returns True iff
\* failed = 0, whatever warnings is.
C20_Counters == [][client' # client => RunnerStep(IsGetOrPostAnyCase)]_vars

\* After a warning had been counted, a call with method "get" met the
\* expected status with a JSON body: it returned True and passed is 1.
C20_Witness ==
    /\ call.op = "test_endpoint"
    /\ call.method = <<"g", "e", "t">>
    /\ call.returned
    /\ results = [passed |-> 1, failed |-> 0, warnings |-> 1]

====
